---- MODULE Spec2Model ----
(***************************************************************************)
(* A model of the wordsmith editor core: the Buffer (src/src/buffer.rs),   *)
(* the edit location and the position arithmetic (src/src/editor.rs) and   *)
(* the editor commands (src/src/editor.rs).                                *)
(*                                                                         *)
(* The document text is a sequence of one-character strings.  The line     *)
(* model (Content::lines, Line, LineType, Content::position_to_offset,     *)
(* Content::offset_to_position, Content::read_range, Content::replace) is  *)
(* used by buffer.rs and editor.rs but its source is not part of src/: it  *)
(* is modelled from spec.md sections 3, 4.1 and 7.                         *)
(***************************************************************************)
EXTENDS Integers, Sequences, FiniteSets, TLC

VARIABLES
    text,           \* Buffer.content: the document, one character per element
    file,           \* Buffer.file: "None" or "Some"
    is_saved,       \* Buffer.is_saved
    edit_location,  \* Editor.edit_location: a Cursor or a Selection
    clipboard,      \* the clipboard item the editor wrote last
    raised,         \* what the command that ran last raised: "Nothing", the
                    \* "PathPrompt", the "ErrorPrompt", or a "Panic"
    pending,        \* the open-file flow: the prompt that is awaited or the
                    \* action that is dispatched, and the answer the save
                    \* prompt of the flow was given
    last            \* the command that ran last and the state it started from

vars == <<text, file, is_saved, edit_location, clipboard, raised, pending, last>>

-----------------------------------------------------------------------------
(* Bounds of the exploration *)

\* longest document the exploration builds
MaxLen == 3

\* longest text the clipboard of the exploration holds
MaxClip == 2

\* longest file of the exhaustive set of opened files
MaxFile == 3

\* longest document the exploration of every command starts a command from
MaxSmall == 1

NL == "\n"

\* the characters typed: a heading marker, a blank, a letter and a line break
Alphabet == {"#", " ", "a", NL}

\* the texts handed to the input handler in one call
InsertTexts == {<<c>> : c \in Alphabet} \cup {<<"#", " ">>, <<"a", NL>>}

RECURSIVE Texts(_)
\* the texts of at most n characters
Texts(n) ==
    IF n = 0 THEN {<<>>}
    ELSE Texts(n - 1) \cup {Append(t, c) : t \in Texts(n - 1), c \in Alphabet}

\* spec.md 8, Scenario A
ScenarioA ==
    <<"#", "#", " ", "T", "i", "t", "l", "e", NL, NL,
      "B", "o", "d", "y", " ", "t", "e", "x", "t">>

\* spec.md 8, Scenario C before the space is typed
ScenarioC == <<"#", "#", "X">>

\* spec.md 8, Scenario D: line 2 is "Hello world"
ScenarioD == <<NL, NL, "H", "e", "l", "l", "o", " ", "w", "o", "r", "l", "d">>

\* a heading whose visible text starts with a heading marker
NestedMarker == <<"#", " ", "#", " ">>

\* the files opened
\* "# " above "a": an empty heading over a longer line
HeadingAbove == <<"#", " ", NL, "a">>

\* six and seven # before a space, and a heading right below a heading
SixHashes == <<"#", "#", "#", "#", "#", "#", " ", "a">>

SevenHashes == <<"#", "#", "#", "#", "#", "#", "#", " ", "a">>

TwoHeadings == <<"#", " ", "a", NL, "#", " ", "a", NL, "a">>

\* spec.md 8, word boundary symmetry: "alpha beta gamma"
AlphaBetaGamma ==
    <<"a", "l", "p", "h", "a", " ", "b", "e", "t", "a", " ",
      "g", "a", "m", "m", "a">>

RECURSIVE As(_)
\* n times the letter a
As(n) == IF n = 0 THEN <<>> ELSE Append(As(n - 1), "a")

\* a paragraph of two words of a, of the lengths given, with one space between
Paragraph(first, second) == As(first) \o <<" ">> \o As(second)

\* spec.md 8, Scenario E: 120 characters, the only space at position 60
ScenarioE == Paragraph(60, 59)

\* the paragraphs wrapped: one word, two words and three words, of lengths
\* around the wrap width
Paragraphs ==
    {As(n) : n \in {0, 1, 20, 40, 49, 50, 51, 60}}
        \cup {Paragraph(first, second) :
                  first \in {0, 1, 20, 40, 49, 50, 51, 60},
                  second \in {0, 1, 20, 49, 50, 51, 59, 79}}
        \cup {Paragraph(first, second) \o <<" ">> \o As(third) :
                  first \in {20, 50}, second \in {20, 50}, third \in {20, 50}}

Files ==
    Texts(MaxFile)
        \cup {ScenarioA, ScenarioC, ScenarioD, NestedMarker, HeadingAbove,
              SixHashes, SevenHashes, TwoHeadings, AlphaBetaGamma}

Max(a, b) == IF a >= b THEN a ELSE b

Min(a, b) == IF a <= b THEN a ELSE b

set_max(S) == CHOOSE m \in S : \A n \in S : n <= m

set_min(S) == CHOOSE m \in S : \A n \in S : m <= n

-----------------------------------------------------------------------------
(* Line model, spec.md 3 and 4.1 *)

is_whitespace(c) == c \in {" ", "\t"}

RECURSIVE trim_start(_)
trim_start(s) ==
    IF s # <<>> /\ is_whitespace(Head(s)) THEN trim_start(Tail(s)) ELSE s

RECURSIVE hash_run(_)
hash_run(s) ==
    IF s # <<>> /\ Head(s) = "#" THEN 1 + hash_run(Tail(s)) ELSE 0

\* headline_level for a marker of any number of #
headline_level_unlimited(s) ==
    LET t == trim_start(s)
        n == hash_run(t)
    IN  IF n >= 1 /\ Len(t) > n /\ t[n + 1] = " " THEN n ELSE 0

\* level of the heading marker a raw line starts with, 0 when it has none
headline_level(s) ==
    LET t == trim_start(s)
        n == hash_run(t)
    IN  IF n >= 1 /\ n <= 6 /\ Len(t) > n /\ t[n + 1] = " " THEN n ELSE 0

RECURSIVE split_lines(_, _, _)
\* the raw lines of t from the character i on, after what is read of the
\* current line: up to the next line break, and the lines after it
split_lines(t, i, current) ==
    LET breaks == {j \in i..Len(t) : t[j] = NL}
    IN  IF breaks = {} THEN <<current \o SubSeq(t, i, Len(t))>>
        ELSE <<current \o SubSeq(t, i, set_min(breaks) - 1)>>
                 \o split_lines(t, set_min(breaks) + 1, <<>>)

Line(raw, kind, level) == [text |-> raw, kind |-> kind, level |-> level]

RECURSIVE classify(_, _, _)
classify(raws, i, in_headline) ==
    IF i > Len(raws) THEN <<>>
    ELSE LET raw == raws[i]
             level == headline_level(raw)
         IN  IF raw = <<>>
             THEN <<Line(raw, "Normal", 0)>> \o classify(raws, i + 1, FALSE)
             ELSE IF level > 0
             THEN <<Line(raw, "HeadlineStart", level)>> \o classify(raws, i + 1, TRUE)
             ELSE IF in_headline
             THEN <<Line(raw, "HeadlineNotStart", 0)>> \o classify(raws, i + 1, TRUE)
             ELSE <<Line(raw, "Normal", 0)>> \o classify(raws, i + 1, FALSE)

\* lines as str::lines gives them: no line for the text after a final line
\* break
lines_without_terminal(t) ==
    IF t # <<>> /\ t[Len(t)] = NL
    THEN classify(split_lines(SubSeq(t, 1, Len(t) - 1), 1, <<>>), 1, FALSE)
    ELSE classify(split_lines(t, 1, <<>>), 1, FALSE)

\* Buffer::lines: one Line per newline-delimited raw line; the text after the
\* last line break (empty when the document is empty or ends in a line break)
\* is the terminal line
lines(t) == classify(split_lines(t, 1, <<>>), 1, FALSE)

\* Buffer::line: indexed access (0-based), clamped to the last line
line(t, index) ==
    LET ls == lines(t) IN ls[Min(index, Len(ls) - 1) + 1]

\* beginning that leaves the space of the marker out
beginning_of_hashes(l) == IF l.kind = "HeadlineStart" THEN -l.level ELSE 0

beginning(l) == IF l.kind = "HeadlineStart" THEN -(l.level + 1) ELSE 0

end(l) == Len(l.text) + beginning(l)

\* clamp_x that only keeps the column from passing the end of the line
clamp_x_to_end(l, preferred_x) == Min(end(l), preferred_x)

clamp_x(l, preferred_x) == Max(beginning(l), Min(end(l), preferred_x))

EditorPosition(y, x) == [y |-> y, x |-> x]

RECURSIVE lines_before(_, _)
\* sum of length + 1 over the first n lines
lines_before(ls, n) ==
    IF n = 0 THEN 0 ELSE lines_before(ls, n - 1) + Len(ls[n].text) + 1

\* position_to_offset that leaves the marker columns out of the count
position_to_offset_unmarked(t, position) ==
    LET ls == lines(t)
        before == lines_before(ls, Min(position.y, Len(ls)))
    IN  Max(0, before + position.x)

position_to_offset(t, position) ==
    LET ls == lines(t)
        before == lines_before(ls, Min(position.y, Len(ls)))
        marker == IF position.y < Len(ls) /\ ls[position.y + 1].kind = "HeadlineStart"
                  THEN ls[position.y + 1].level + 1 ELSE 0
    IN  Max(0, before + marker + position.x)

RECURSIVE walk_lines(_, _, _)
walk_lines(ls, y, remaining) ==
    LET l == ls[y + 1]
    IN  IF remaining <= Len(l.text) \/ y = Len(ls) - 1
        THEN EditorPosition(y, Min(remaining, Len(l.text)) + beginning(l))
        ELSE walk_lines(ls, y + 1, remaining - (Len(l.text) + 1))

offset_to_position(t, offset) == walk_lines(lines(t), 0, offset)

\* the characters of s at the offsets from..to-1
slice(s, from, to) == SubSeq(s, from + 1, to)

read_range(t, start, finish) ==
    LET s == Min(Max(start, 0), Len(t))
        e == Max(s, Min(finish, Len(t)))
    IN  slice(t, s, e)

replace(t, start, finish, replacement) ==
    LET s == Min(Max(start, 0), Len(t))
        e == Max(s, Min(finish, Len(t)))
    IN  slice(t, 0, s) \o replacement \o slice(t, e, Len(t))

-----------------------------------------------------------------------------
(* Edit location, src/src/editor.rs 38-153 *)

Cursor(position, preferred_x) ==
    [kind |-> "Cursor", position |-> position, preferred_x |-> preferred_x]

Selection(start, finish) ==
    [kind |-> "Selection", start |-> start, end |-> finish]

\* EditorPosition::partial_cmp
partial_cmp(a, b) ==
    IF a.y = b.y
    THEN IF a.x < b.x THEN "Less" ELSE IF a.x > b.x THEN "Greater" ELSE "Equal"
    ELSE IF a.y < b.y THEN "Less"
    ELSE IF a.y > b.y THEN "Greater"
    ELSE "Equal"

\* an order of positions that looks at the column before the line
less_by_column(a, b) == IF a.x = b.x THEN a.y < b.y ELSE a.x < b.x

\* EditorPosition::partial_cmp = Less
less(a, b) == IF a.y = b.y THEN a.x < b.x ELSE a.y < b.y

direction(selection) ==
    IF less(selection.end, selection.start) THEN "Backwards" ELSE "Forwards"

\* smallest that takes the selection to run forwards
smallest_is_start(selection) == selection.start

smallest(selection) ==
    IF less(selection.start, selection.end) THEN selection.start ELSE selection.end

largest(selection) ==
    IF less(selection.end, selection.start) THEN selection.start ELSE selection.end

-----------------------------------------------------------------------------
(* Position helpers, src/src/editor.rs 939-1021 *)

\* left_position that does not leave the line
left_position_in_line(t, point) ==
    IF point.x = beginning(line(t, point.y)) THEN point
    ELSE EditorPosition(point.y, point.x - 1)

left_position(t, point) ==
    LET l == line(t, point.y)
    IN  IF point.y = 0 /\ point.x = beginning(l) THEN point
        ELSE IF point.x = beginning(l)
        THEN EditorPosition(point.y - 1, end(line(t, point.y - 1)))
        ELSE EditorPosition(point.y, point.x - 1)

\* right_position that enters the next line at its beginning()
right_position_to_beginning(t, point) ==
    LET l == line(t, point.y)
    IN  IF point.y = Len(lines(t)) - 1 /\ point.x = end(l) THEN point
        ELSE IF point.x = end(l)
        THEN EditorPosition(point.y + 1, beginning(line(t, point.y + 1)))
        ELSE EditorPosition(point.y, point.x + 1)

right_position(t, point) ==
    LET line_length == Len(lines(t))
        l == line(t, point.y)
    IN  IF point.y = line_length - 1 /\ point.x = end(l) THEN point
        ELSE IF point.x = end(l) THEN EditorPosition(point.y + 1, 0)
        ELSE EditorPosition(point.y, point.x + 1)

up_position(t, point, preferred_x) ==
    IF point.y = 0 THEN EditorPosition(0, beginning(line(t, 0)))
    ELSE EditorPosition(point.y - 1, clamp_x(line(t, point.y - 1), preferred_x))

\* down_position that takes the preferred x as it is
down_position_unclamped(t, point, preferred_x) ==
    IF point.y = Len(lines(t)) - 1 THEN EditorPosition(point.y, end(line(t, point.y)))
    ELSE EditorPosition(point.y + 1, preferred_x)

down_position(t, point, preferred_x) ==
    IF point.y = Len(lines(t)) - 1 THEN EditorPosition(point.y, end(line(t, point.y)))
    ELSE EditorPosition(point.y + 1, clamp_x(line(t, point.y + 1), preferred_x))

beginning_of_file_position(t) == EditorPosition(0, beginning(line(t, 0)))

\* end_of_file_position that takes the end of line 0
end_of_file_position_first_line(t) == EditorPosition(0, end(line(t, 0)))

end_of_file_position(t) ==
    LET y == Len(lines(t)) - 1 IN EditorPosition(y, end(line(t, y)))

beginning_of_line_position(t, point) ==
    EditorPosition(point.y, beginning(line(t, point.y)))

end_of_line_position(t, point) ==
    EditorPosition(point.y, end(line(t, point.y)))

\* a word starts at offset i of s: a character that is not whitespace, first
\* of s or after whitespace
word_start(s, i) ==
    /\ i >= 0
    /\ i < Len(s)
    /\ ~is_whitespace(s[i + 1])
    /\ (i = 0 \/ is_whitespace(s[i]))

word_starts(s) == {i \in 0..(Len(s) - 1) : word_start(s, i)}

\* WrappedText::next_word_boundary: the nearest word start after the offset,
\* None when the text has none
None == -1

\* next_word_boundary that takes a word start at the offset itself
next_word_boundary_from(s, offset) ==
    LET after == {i \in word_starts(s) : i >= offset}
    IN  IF after = {} THEN None ELSE set_min(after)

next_word_boundary(s, offset) ==
    LET after == {i \in word_starts(s) : i > offset}
    IN  IF after = {} THEN None ELSE set_min(after)

\* WrappedText::previous_word_boundary: the nearest word start before the
\* offset.  Its caller takes a plain number: when the text has no word start
\* before the offset the number is the offset itself, which is not before it
previous_word_boundary(s, offset) ==
    LET before == {i \in word_starts(s) : i < offset}
    IN  IF before = {} THEN offset ELSE set_max(before)

\* str::trim().is_empty()
is_blank(s) == \A i \in 1..Len(s) : is_whitespace(s[i])

RECURSIVE leading_whitespace(_)
leading_whitespace(s) ==
    IF s # <<>> /\ is_whitespace(Head(s)) THEN 1 + leading_whitespace(Tail(s)) ELSE 0

\* beginning_of_word_position that stops at the beginning of its line
beginning_of_word_position_in_line(t, point) ==
    LET l == line(t, point.y)
        line_offset == point.x - beginning(l)
        new_x == beginning(l) + previous_word_boundary(l.text, line_offset)
    IN  IF point.x > beginning(l) /\ line_offset <= Len(l.text) /\ new_x < point.x
        THEN EditorPosition(point.y, new_x)
        ELSE EditorPosition(point.y, beginning(l))

beginning_of_word_position(t, point) ==
    LET l == line(t, point.y)
        line_offset == point.x - beginning(l)
        new_x == beginning(l) + previous_word_boundary(l.text, line_offset)
        previous_line == line(t, point.y - 1)
    IN  IF point.y = 0 /\ point.x <= beginning(l) THEN beginning_of_file_position(t)
        ELSE IF point.x > beginning(l) /\ line_offset <= Len(l.text) /\ new_x < point.x
        THEN EditorPosition(point.y, new_x)
        ELSE IF point.y = 0 THEN beginning_of_file_position(t)
        ELSE IF is_blank(previous_line.text)
        THEN EditorPosition(point.y - 1, beginning(previous_line))
        ELSE EditorPosition(point.y - 1,
                 beginning(previous_line)
                     + previous_word_boundary(previous_line.text, Len(previous_line.text)))

\* end_of_word_position that stops at the end of its line
end_of_word_position_in_line(t, point) ==
    LET l == line(t, point.y)
        line_offset == point.x - beginning(l)
        word_boundary ==
            IF line_offset >= 0 /\ line_offset < Len(l.text)
            THEN next_word_boundary(l.text, line_offset) ELSE None
    IN  IF word_boundary # None
        THEN EditorPosition(point.y, beginning(l) + word_boundary)
        ELSE EditorPosition(point.y, end(l))

end_of_word_position(t, point) ==
    LET l == line(t, point.y)
        line_offset == point.x - beginning(l)
        word_boundary ==
            IF line_offset >= 0 /\ line_offset < Len(l.text)
            THEN next_word_boundary(l.text, line_offset) ELSE None
        next_line == line(t, point.y + 1)
        start_offset == leading_whitespace(next_line.text)
    IN  IF word_boundary # None /\ beginning(l) + word_boundary <= end(l)
        THEN EditorPosition(point.y, beginning(l) + word_boundary)
        ELSE IF point.y >= Len(lines(t)) - 1 THEN EditorPosition(point.y, end(l))
        ELSE IF is_blank(next_line.text) \/ start_offset >= Len(next_line.text)
        THEN EditorPosition(point.y + 1, beginning(next_line))
        ELSE EditorPosition(point.y + 1, beginning(next_line) + start_offset)

\* the wrap width, src/src/editor.rs 25
CHARACTER_COUNT_PER_LINE == 50

RECURSIVE wrap(_, _)
\* WrappedText: the sub-lines of a line's text at the width W.  A text longer
\* than W is broken at its last whitespace at or before column W, which is
\* left out, and the rest is wrapped in turn; with no whitespace there the
\* wrap does not return: spec.md 9 gives the source's behaviour as an abort
wrap(s, W) ==
    IF Len(s) <= W THEN [result |-> "Ok", lines |-> <<s>>]
    ELSE LET candidates == {k \in 0..W : is_whitespace(s[k + 1])}
         IN  IF candidates = {} THEN [result |-> "Panic", lines |-> <<>>]
             ELSE LET k == set_max(candidates)
                      rest == wrap(slice(s, k + 1, Len(s)), W)
                  IN  IF rest.result = "Ok"
                      THEN [result |-> "Ok", lines |-> <<slice(s, 0, k)>> \o rest.lines]
                      ELSE rest

\* Editor::move_to: the edit location becomes a Cursor
move_to(position, preferred_x) == Cursor(position, preferred_x)

\* select that makes a Selection of any two positions
select_any(start, finish) == Selection(start, finish)

\* Editor::select: an empty selection is a Cursor
select(start, finish) ==
    IF start = finish THEN move_to(start, start.x) ELSE Selection(start, finish)

\* select_to that extends from the floating end of a Selection
select_to_from_end(location, finish) ==
    select(IF location.kind = "Cursor" THEN location.position ELSE location.end,
           finish)

\* Editor::select_to: extend from the anchor of the edit location
select_to(location, finish) ==
    select(IF location.kind = "Cursor" THEN location.position ELSE location.start,
           finish)

\* replace_range whose range takes in the character at its end
replace_range_inclusive(t, start, finish, replacement) ==
    replace(t, position_to_offset(t, start), position_to_offset(t, finish) + 1,
            replacement)

\* Editor::replace_range: both positions are converted on the text as it is
\* when the call is made
replace_range(t, start, finish, replacement) ==
    replace(t, position_to_offset(t, start), position_to_offset(t, finish), replacement)

\* Editor::read_range
read_position_range(t, start, finish) ==
    read_range(t, position_to_offset(t, start), position_to_offset(t, finish))

\* the range an edit command works on: the cursor point or the selection
edit_range(location) ==
    IF location.kind = "Cursor"
    THEN [start |-> location.position, end |-> location.position]
    ELSE [start |-> smallest(location), end |-> largest(location)]

-----------------------------------------------------------------------------
(* Edit commands, src/src/editor.rs 701-845 and 1219-1266 *)

\* what a command leaves behind: the text, the edit location, and whether
\* Buffer::replace was called (it clears is_saved, src/src/buffer.rs 115-119)
Outcome(t, location, replaced) ==
    [text |-> t, edit_location |-> location, replaced |-> replaced]

\* backspace_cursor without the branch for x = 0 of a HeadlineStart line
backspace_cursor_one_character(t, cursor) ==
    LET pos == cursor.position
        position == left_position(t, pos)
        t2 == replace_range(t, position, pos, <<>>)
    IN  IF pos = beginning_of_file_position(t) THEN Outcome(t, cursor, FALSE)
        ELSE Outcome(t2,
                     IF position.x >= 0 THEN move_to(position, position.x) ELSE cursor,
                     TRUE)

\* backspace_cursor without the early return at the beginning of the file
backspace_cursor_no_return(t, cursor) ==
    LET pos == cursor.position
        position == left_position(t, pos)
        t2 == replace_range(t, position, pos, <<>>)
    IN  Outcome(t2,
                IF position.x >= 0 THEN move_to(position, position.x) ELSE cursor,
                TRUE)

backspace_cursor(t, cursor) ==
    LET pos == cursor.position
        l == line(t, pos.y)
    IN  IF pos = beginning_of_file_position(t) THEN Outcome(t, cursor, FALSE)
        ELSE IF l.kind = "HeadlineStart" /\ pos.x = 0
        THEN Outcome(replace_range(t, EditorPosition(pos.y, beginning(l)), pos, <<>>),
                     cursor, TRUE)
        ELSE IF l.kind = "Normal" /\ pos.x = 0
        THEN LET soft_wrap_position == left_position(t, pos)
                 position == left_position(t, soft_wrap_position)
                 t2 == replace_range(t, position, pos, <<>>)
                 cursor_offset == position_to_offset(t2, soft_wrap_position)
                 new_cursor_position == offset_to_position(t2, cursor_offset)
             IN  Outcome(t2, move_to(new_cursor_position, position.x), TRUE)
        ELSE LET position == left_position(t, pos)
                 t2 == replace_range(t, position, pos, <<>>)
             IN  Outcome(t2,
                         IF position.x >= 0 THEN move_to(position, position.x) ELSE cursor,
                         TRUE)

\* backspace_selection that deletes from start to end, whatever the direction
backspace_selection_forwards(t, selection) ==
    LET t2 == replace_range(t, selection.start, selection.end, <<>>)
        x == Max(0, selection.start.x)
    IN  Outcome(t2, move_to(EditorPosition(selection.start.y, x), x), TRUE)

backspace_selection(t, selection) ==
    LET small == smallest(selection)
        t2 == replace_range(t, small, largest(selection), <<>>)
        x == Max(0, small.x)
    IN  Outcome(t2, move_to(EditorPosition(small.y, x), x), TRUE)

backspace(t, location) ==
    IF location.kind = "Cursor" THEN backspace_cursor(t, location)
    ELSE backspace_selection(t, location)

enter(t, location) ==
    LET range == edit_range(location)
        t2 == replace_range(t, range.start, range.end, <<NL>>)
        y == range.end.y + 1
        position == EditorPosition(y, beginning(line(t2, y)))
    IN  Outcome(t2, move_to(position, position.x), TRUE)

\* replace_text_in_range without the heading-space special case
replace_text_in_range_plain(t, location, typed) ==
    LET range == edit_range(location)
        t2 == replace_range(t, range.start, range.end, typed)
        offset == position_to_offset(t2, range.start) + Len(typed)
        end_position == offset_to_position(t2, offset)
        wrapped ==
            IF end_position.y > range.start.y
            THEN offset_to_position(t2, offset + (end_position.y - range.start.y))
            ELSE end_position
    IN  Outcome(t2, move_to(wrapped, wrapped.x), TRUE)

\* ViewInputHandler::replace_text_in_range with no explicit range: the text
\* typed replaces the cursor point or the selection
replace_text_in_range(t, location, typed) ==
    LET range == edit_range(location)
        t2 == replace_range(t, range.start, range.end, typed)
        headline_space ==
            /\ location.kind = "Cursor"
            /\ line(t2, location.position.y).kind = "HeadlineStart"
            /\ location.position.x = line(t2, location.position.y).level
            /\ typed = <<" ">>
        offset == position_to_offset(t2, range.start) + Len(typed)
        end_position == offset_to_position(t2, offset)
        wrapped ==
            IF end_position.y > range.start.y
            THEN offset_to_position(t2, offset + (end_position.y - range.start.y))
            ELSE end_position
    IN  IF headline_space
        THEN Outcome(t2, move_to(EditorPosition(location.position.y, 0), 0), TRUE)
        ELSE Outcome(t2, move_to(wrapped, wrapped.x), TRUE)

\* Editor::copy and Editor::cut put this on the clipboard
selected_text(t, selection) ==
    read_position_range(t, smallest(selection), largest(selection))

cut(t, location) ==
    IF location.kind = "Selection"
    THEN Outcome(replace_range(t, smallest(location), largest(location), <<>>),
                 move_to(smallest(location), smallest(location).x), TRUE)
    ELSE Outcome(t, location, FALSE)

paste(t, location, content) ==
    LET range == edit_range(location)
        t2 == replace_range(t, range.start, range.end, content)
        offset == position_to_offset(t2, range.start) + Len(content)
        position == offset_to_position(t2, offset)
    IN  Outcome(t2, move_to(position, position.x), TRUE)

-----------------------------------------------------------------------------
(* Move and select commands, src/src/editor.rs 391-699 *)

move_left(t, location) ==
    LET position == left_position(t, edit_range(location).start)
    IN  move_to(position, position.x)

\* move_right that starts from the smaller endpoint of a selection
move_right_from_smallest(t, location) ==
    LET position == right_position(t, edit_range(location).start)
    IN  move_to(position, position.x)

move_right(t, location) ==
    LET position == right_position(t, edit_range(location).end)
    IN  move_to(position, position.x)

move_up(t, location) ==
    LET starting_point == edit_range(location).start
        preferred_x == IF location.kind = "Cursor" THEN location.preferred_x
                       ELSE starting_point.x
        position == up_position(t, starting_point, preferred_x)
    IN  move_to(position,
                IF location.kind = "Cursor" THEN location.preferred_x ELSE position.x)

move_down(t, location) ==
    LET starting_point == edit_range(location).end
        preferred_x == IF location.kind = "Cursor" THEN location.preferred_x
                       ELSE starting_point.x
        position == down_position(t, starting_point, preferred_x)
    IN  move_to(position,
                IF location.kind = "Cursor" THEN location.preferred_x ELSE position.x)

move_beginning_of_file(t, location) ==
    LET position == beginning_of_file_position(t) IN move_to(position, position.x)

move_end_of_file(t, location) ==
    LET position == end_of_file_position(t)
    IN  move_to(position, end(line(t, position.y)))

\* the floating end of a selection, or the cursor
floating_point(location) ==
    IF location.kind = "Cursor" THEN location.position
    ELSE IF direction(location) = "Backwards" THEN smallest(location)
    ELSE largest(location)

move_beginning_of_line(t, location) ==
    LET position == beginning_of_line_position(t, floating_point(location))
    IN  move_to(position, position.x)

move_end_of_line(t, location) ==
    LET position == end_of_line_position(t, floating_point(location))
    IN  move_to(position, position.x)

move_beginning_of_word(t, location) ==
    LET position == beginning_of_word_position(t, edit_range(location).start)
    IN  move_to(position, position.x)

move_end_of_word(t, location) ==
    LET position == end_of_word_position(t, edit_range(location).end)
    IN  move_to(position, position.x)

select_left(t, location) ==
    IF location.kind = "Cursor"
    THEN select(location.position, left_position(t, location.position))
    ELSE select(location.start, left_position(t, location.end))

select_right(t, location) ==
    IF location.kind = "Cursor"
    THEN select(location.position, right_position(t, location.position))
    ELSE select(location.start, right_position(t, location.end))

select_up(t, location) ==
    IF location.kind = "Cursor"
    THEN select_to(location, up_position(t, location.position, location.position.x))
    ELSE IF direction(location) = "Backwards"
    THEN select_to(location, up_position(t, location.end, location.start.x))
    ELSE select(location.start, up_position(t, location.end, location.end.x))

select_down(t, location) ==
    IF location.kind = "Cursor"
    THEN select_to(location, down_position(t, location.position, location.position.x))
    ELSE IF direction(location) = "Backwards"
    THEN select(location.start, down_position(t, location.end, location.end.x))
    ELSE select_to(location, down_position(t, location.end, location.start.x))

anchor(location) ==
    IF location.kind = "Cursor" THEN location.position ELSE location.start

select_beginning_of_file(t, location) ==
    select(anchor(location), beginning_of_file_position(t))

select_end_of_file(t, location) ==
    select(anchor(location), end_of_file_position(t))

select_beginning_of_line(t, location) ==
    IF location.kind = "Cursor"
    THEN select(location.position, beginning_of_line_position(t, location.position))
    ELSE IF direction(location) = "Backwards"
    THEN select_to(location, beginning_of_line_position(t, location.end))
    ELSE select(location.start, beginning_of_line_position(t, location.end))

select_end_of_line(t, location) ==
    IF location.kind = "Cursor"
    THEN select(location.position, end_of_line_position(t, location.position))
    ELSE IF direction(location) = "Backwards"
    THEN select_to(location, end_of_line_position(t, location.end))
    ELSE select(location.start, end_of_line_position(t, location.end))

select_beginning_of_word(t, location) ==
    IF location.kind = "Cursor"
    THEN select_to(location, beginning_of_word_position(t, location.position))
    ELSE IF direction(location) = "Backwards"
    THEN select_to(location, beginning_of_word_position(t, location.end))
    ELSE select(location.start, beginning_of_word_position(t, location.end))

select_end_of_word(t, location) ==
    IF location.kind = "Cursor"
    THEN select_to(location, end_of_word_position(t, location.position))
    ELSE IF direction(location) = "Backwards"
    THEN select_to(location, end_of_word_position(t, location.end))
    ELSE select(location.start, end_of_word_position(t, location.end))

select_all(t, location) ==
    select(beginning_of_file_position(t), end_of_file_position(t))

\* remove_selection that leaves the Cursor at the smaller end of the Selection
remove_selection_to_smallest(t, location) ==
    IF location.kind = "Selection"
    THEN move_to(smallest(location), smallest(location).x)
    ELSE location

remove_selection(t, location) ==
    IF location.kind = "Selection" THEN move_to(location.start, location.start.x)
    ELSE location

-----------------------------------------------------------------------------
(* The editor as a state machine: one action per command *)

\* the open-file flow at a step: prompt is "None", the "SavePrompt", the
\* "SavePath" prompt that leads on to the open prompt, the "OpenPrompt", or
\* the "SetBuffer" action dispatched
Flow(prompt, answer) == [prompt |-> prompt, answer |-> answer]

NoFlow == Flow("None", "None")

\* the command that ran last, its input, and the state it started from
Before(cmd, arg) ==
    [cmd |-> cmd, arg |-> arg, text |-> text, file |-> file, is_saved |-> is_saved,
     edit_location |-> edit_location, clipboard |-> clipboard, pending |-> pending]

\* Editor::new over Buffer::empty (src/src/main.rs 174)
Init ==
    /\ text = <<>>
    /\ file = "None"
    /\ is_saved = TRUE
    /\ edit_location = Cursor(EditorPosition(0, 0), 0)
    /\ clipboard = <<>>
    /\ raised = "Nothing"
    /\ pending = NoFlow
    /\ last = [cmd |-> "new", arg |-> <<>>, text |-> <<>>, file |-> "None",
               is_saved |-> TRUE, edit_location |-> Cursor(EditorPosition(0, 0), 0),
               clipboard |-> <<>>, pending |-> NoFlow]

\* the exploration follows a position only this far
InBox(position) ==
    /\ position.y <= Max(MaxLen, Len(text)) + 1
    /\ position.x <= Max(MaxLen, Len(text)) + 1
    /\ position.x >= -(Max(MaxLen, Len(text)) + 1)

LocationInBox(location) ==
    IF location.kind = "Cursor" THEN InBox(location.position)
    ELSE InBox(location.start) /\ InBox(location.end)

\* Buffer::pristine
Pristine == is_saved

\* the length a document may grow to: MaxLen characters, and the first edit of
\* an opened file may add to the file whatever its length
Room == IF Pristine THEN Len(text) + MaxClip ELSE Max(MaxLen, Len(text))

\* an edit command whose Buffer::replace leaves is_saved as it was
Edited_unmarked(cmd, arg, outcome) ==
    /\ Len(outcome.text) <= Room
    /\ LocationInBox(outcome.edit_location)
    /\ text' = outcome.text
    /\ edit_location' = outcome.edit_location
    /\ last' = Before(cmd, arg)
    /\ raised' = "Nothing"
    /\ UNCHANGED <<file, is_saved, pending>>

\* an edit command ran to its end
Edited(cmd, arg, outcome) ==
    /\ Len(outcome.text) <= Room
    /\ LocationInBox(outcome.edit_location)
    /\ text' = outcome.text
    /\ edit_location' = outcome.edit_location
    /\ is_saved' = (is_saved /\ ~outcome.replaced)
    /\ last' = Before(cmd, arg)
    /\ raised' = "Nothing"
    /\ UNCHANGED <<file, pending>>

\* a move or select command that marks the buffer as changed
Moved_marking(cmd, location) ==
    /\ LocationInBox(location)
    /\ edit_location' = location
    /\ is_saved' = FALSE
    /\ last' = Before(cmd, <<>>)
    /\ raised' = "Nothing"
    /\ UNCHANGED <<text, file, clipboard, pending>>

\* a move or select command ran to its end
Moved(cmd, location) ==
    /\ LocationInBox(location)
    /\ edit_location' = location
    /\ last' = Before(cmd, <<>>)
    /\ raised' = "Nothing"
    /\ UNCHANGED <<text, file, is_saved, clipboard, pending>>

Backspace ==
    /\ Edited("backspace", <<>>, backspace(text, edit_location))
    /\ UNCHANGED clipboard

Enter ==
    /\ Edited("enter", <<>>, enter(text, edit_location))
    /\ UNCHANGED clipboard

ReplaceTextInRange ==
    \E typed \in InsertTexts :
        /\ Edited("insert", typed, replace_text_in_range(text, edit_location, typed))
        /\ UNCHANGED clipboard

Copy ==
    /\ edit_location.kind = "Selection"
    /\ Len(selected_text(text, edit_location)) <= MaxClip
    /\ clipboard' = selected_text(text, edit_location)
    /\ last' = Before("copy", <<>>)
    /\ raised' = "Nothing"
    /\ UNCHANGED <<text, file, is_saved, edit_location, pending>>

CopyNothing ==
    /\ edit_location.kind = "Cursor"
    /\ last' = Before("copy", <<>>)
    /\ raised' = "Nothing"
    /\ UNCHANGED <<text, file, is_saved, edit_location, clipboard, pending>>

Cut ==
    /\ edit_location.kind = "Selection"
    /\ Len(selected_text(text, edit_location)) <= MaxClip
    /\ clipboard' = selected_text(text, edit_location)
    /\ Edited("cut", <<>>, cut(text, edit_location))

CutNothing ==
    /\ edit_location.kind = "Cursor"
    /\ Edited("cut", <<>>, cut(text, edit_location))
    /\ UNCHANGED clipboard

Paste ==
    /\ Edited("paste", clipboard, paste(text, edit_location, clipboard))
    /\ UNCHANGED clipboard

MoveLeft == Moved("move_left", move_left(text, edit_location))

MoveRight == Moved("move_right", move_right(text, edit_location))

MoveUp == Moved("move_up", move_up(text, edit_location))

MoveDown == Moved("move_down", move_down(text, edit_location))

MoveBeginningOfFile ==
    Moved("move_beginning_of_file", move_beginning_of_file(text, edit_location))

MoveEndOfFile == Moved("move_end_of_file", move_end_of_file(text, edit_location))

MoveBeginningOfLine ==
    Moved("move_beginning_of_line", move_beginning_of_line(text, edit_location))

MoveEndOfLine == Moved("move_end_of_line", move_end_of_line(text, edit_location))

SelectLeft == Moved("select_left", select_left(text, edit_location))

SelectRight == Moved("select_right", select_right(text, edit_location))

SelectUp == Moved("select_up", select_up(text, edit_location))

SelectDown == Moved("select_down", select_down(text, edit_location))

SelectBeginningOfFile ==
    Moved("select_beginning_of_file", select_beginning_of_file(text, edit_location))

SelectEndOfFile == Moved("select_end_of_file", select_end_of_file(text, edit_location))

SelectBeginningOfLine ==
    Moved("select_beginning_of_line", select_beginning_of_line(text, edit_location))

SelectEndOfLine == Moved("select_end_of_line", select_end_of_line(text, edit_location))

MoveBeginningOfWord ==
    Moved("move_beginning_of_word", move_beginning_of_word(text, edit_location))

MoveEndOfWord == Moved("move_end_of_word", move_end_of_word(text, edit_location))

SelectBeginningOfWord ==
    Moved("select_beginning_of_word", select_beginning_of_word(text, edit_location))

SelectEndOfWord ==
    Moved("select_end_of_word", select_end_of_word(text, edit_location))

SelectAll == Moved("select_all", select_all(text, edit_location))

RemoveSelection == Moved("remove_selection", remove_selection(text, edit_location))

\* Editor::set_buffer over Buffer::from_path: the buffer is replaced by the
\* file's, the edit location is kept; the action dispatched is taken
SetBuffer ==
    \E contents \in Files :
        /\ text' = contents
        /\ file' = "Some"
        /\ is_saved' = TRUE
        /\ last' = Before("set_buffer", contents)
        /\ raised' = "Nothing"
        /\ pending' = NoFlow
        /\ UNCHANGED <<edit_location, clipboard>>

\* Editor::set_buffer over Buffer::from_path, for a file that holds one
\* paragraph
OpenParagraph ==
    \E contents \in Paragraphs :
        /\ text' = contents
        /\ file' = "Some"
        /\ is_saved' = TRUE
        /\ last' = Before("set_buffer", contents)
        /\ raised' = "Nothing"
        /\ pending' = NoFlow
        /\ UNCHANGED <<edit_location, clipboard>>

\* the renderer asks the WrappedText of every line of the document for its
\* sub-lines
Render ==
    /\ raised' =
           IF \E y \in 1..Len(lines(text)) :
                  wrap(lines(text)[y].text, CHARACTER_COUNT_PER_LINE).result = "Panic"
           THEN "Panic"
           ELSE "Nothing"
    /\ last' = Before("render", <<>>)
    /\ UNCHANGED <<text, file, is_saved, edit_location, clipboard, pending>>

\* what the file system answers to an open or to a write
IoResults == {"Ok", "IoError"}

\* what the path prompt comes back with: nothing, a path that does not end in
\* .md, a path that does
PathAnswers == {"Cancel", "NoMd", "Md"}

\* Buffer::save that marks the buffer as saved before it looks for the file
buffer_save_marking(f, saved, write) ==
    IF f = "None" THEN [result |-> "NoFileAssociated", file |-> f, is_saved |-> TRUE]
    ELSE IF write = "Ok" THEN [result |-> "Ok", file |-> f, is_saved |-> TRUE]
    ELSE [result |-> "Panic", file |-> f, is_saved |-> TRUE]

\* Buffer::save: its result and the buffer it leaves.  set_len, seek and write
\* are unwrapped: a failure of the file system is a panic
buffer_save(f, saved, write) ==
    IF f = "None" THEN [result |-> "NoFileAssociated", file |-> f, is_saved |-> saved]
    ELSE IF write = "Ok" THEN [result |-> "Ok", file |-> f, is_saved |-> TRUE]
    ELSE [result |-> "Panic", file |-> f, is_saved |-> saved]

\* Buffer::set_file: a failed open is returned before anything is assigned; an
\* opened file is assigned and then saved to
buffer_set_file(f, saved, open, write) ==
    IF open = "IoError" THEN [result |-> "IoError", file |-> f, is_saved |-> saved]
    ELSE buffer_save("Some", saved, write)

\* what the editor raises for a result of the buffer
raised_for(result) ==
    IF result = "Ok" THEN "Nothing"
    ELSE IF result = "Panic" THEN "Panic"
    ELSE "ErrorPrompt"

\* Editor::save: without a file the path prompt is raised, with one the
\* buffer is saved
Save ==
    \E write \in IoResults :
        LET saved == buffer_save(file, is_saved, write)
        IN  /\ IF file = "None"
               THEN raised' = "PathPrompt" /\ UNCHANGED <<file, is_saved>>
               ELSE /\ file' = saved.file
                    /\ is_saved' = saved.is_saved
                    /\ raised' = raised_for(saved.result)
            /\ last' = Before("save", <<write>>)
            /\ UNCHANGED <<text, edit_location, clipboard, pending>>

\* Editor::save_as
SaveAs ==
    /\ raised' = "PathPrompt"
    /\ last' = Before("save_as", <<>>)
    /\ UNCHANGED <<text, file, is_saved, edit_location, clipboard, pending>>

\* Editor::prompt_to_save_file_with_callback, once the path prompt is
\* answered: Buffer::set_file on a path that ends in .md
PromptAnswered ==
    \E answer \in PathAnswers, open \in IoResults, write \in IoResults :
        LET set == buffer_set_file(file, is_saved, open, write)
        IN  /\ raised = "PathPrompt"
            /\ IF answer = "Cancel"
               THEN raised' = "Nothing" /\ UNCHANGED <<file, is_saved>>
               ELSE IF answer = "NoMd"
               THEN raised' = "ErrorPrompt" /\ UNCHANGED <<file, is_saved>>
               ELSE /\ file' = set.file
                    /\ is_saved' = set.is_saved
                    /\ raised' = raised_for(set.result)
            /\ last' = Before("set_file", <<answer, open, write>>)
            /\ UNCHANGED <<text, edit_location, clipboard, pending>>

\* Editor::new_file over Buffer::empty: the buffer is replaced by an empty
\* one, the edit location is kept
NewFile ==
    /\ text' = <<>>
    /\ file' = "None"
    /\ is_saved' = TRUE
    /\ last' = Before("new_file", <<>>)
    /\ raised' = "Nothing"
    /\ UNCHANGED <<edit_location, clipboard, pending>>

\* Editor::open_file: the save prompt for a buffer that is not pristine, the
\* open prompt for one that is
OpenFile ==
    /\ pending' = Flow(IF ~Pristine THEN "SavePrompt" ELSE "OpenPrompt", "None")
    /\ last' = Before("open_file", <<>>)
    /\ raised' = "Nothing"
    /\ UNCHANGED <<text, file, is_saved, edit_location, clipboard>>

\* the buttons of the save prompt
SavePromptAnswers == {"Save", "DontSave", "Cancel"}

\* Editor::prompt_to_save_before_open, once the save prompt is answered
SavePromptAnswered ==
    \E answer \in SavePromptAnswers, write \in IoResults :
        LET saved == buffer_save(file, is_saved, write)
        IN  /\ pending.prompt = "SavePrompt"
            /\ IF answer = "Save" /\ file = "None"
               THEN /\ pending' = Flow("SavePath", answer)
                    /\ raised' = "Nothing"
                    /\ UNCHANGED <<file, is_saved>>
               ELSE IF answer = "Save"
               THEN /\ file' = saved.file
                    /\ is_saved' = saved.is_saved
                    /\ raised' = raised_for(saved.result)
                    /\ pending' = IF saved.result = "Ok" THEN Flow("OpenPrompt", answer)
                                  ELSE NoFlow
               ELSE /\ pending' = IF answer = "DontSave" THEN Flow("OpenPrompt", answer)
                                  ELSE NoFlow
                    /\ raised' = "Nothing"
                    /\ UNCHANGED <<file, is_saved>>
            /\ last' = Before("save_prompt", <<answer, write>>)
            /\ UNCHANGED <<text, edit_location, clipboard>>

\* Editor::prompt_to_save_file_with_callback with prompt_to_open_file as the
\* callback, once the path prompt is answered: the callback runs when
\* Buffer::set_file returned Ok
SavePathAnswered ==
    \E answer \in PathAnswers, open \in IoResults, write \in IoResults :
        LET set == buffer_set_file(file, is_saved, open, write)
        IN  /\ pending.prompt = "SavePath"
            /\ IF answer = "Cancel"
               THEN raised' = "Nothing" /\ pending' = NoFlow /\ UNCHANGED <<file, is_saved>>
               ELSE IF answer = "NoMd"
               THEN raised' = "ErrorPrompt" /\ pending' = NoFlow /\ UNCHANGED <<file, is_saved>>
               ELSE /\ file' = set.file
                    /\ is_saved' = set.is_saved
                    /\ raised' = raised_for(set.result)
                    /\ pending' = IF set.result = "Ok"
                                  THEN Flow("OpenPrompt", pending.answer)
                                  ELSE NoFlow
            /\ last' = Before("set_file", <<answer, open, write>>)
            /\ UNCHANGED <<text, edit_location, clipboard>>

\* Editor::prompt_to_open_file, once the open prompt is answered: the
\* SetBuffer action is dispatched for a path that ends in .md
OpenPromptAnswered ==
    \E answer \in PathAnswers :
        /\ pending.prompt = "OpenPrompt"
        /\ pending' = IF answer = "Md" THEN Flow("SetBuffer", pending.answer) ELSE NoFlow
        /\ raised' = IF answer = "NoMd" THEN "ErrorPrompt" ELSE "Nothing"
        /\ last' = Before("open_prompt", <<answer>>)
        /\ UNCHANGED <<text, file, is_saved, edit_location, clipboard>>

\* typing, deleting and moving by one position: every document of at most
\* MaxLen characters with every edit location these commands lead to
Next ==
    \/ Backspace
    \/ Enter
    \/ ReplaceTextInRange
    \/ MoveLeft
    \/ MoveRight
    \/ SelectLeft
    \/ SelectRight

Spec == Init /\ [][Next]_vars

\* a file may be opened as the editor starts; the commands are followed up to
\* the first edit of the document
NextOpened ==
    \/ last.cmd = "new" /\ SetBuffer
    \/ Pristine /\ Backspace
    \/ Pristine /\ Enter
    \/ Pristine /\ ReplaceTextInRange
    \/ Pristine /\ MoveLeft
    \/ Pristine /\ MoveRight
    \/ Pristine /\ SelectLeft
    \/ Pristine /\ SelectRight

SpecOpened == Init /\ [][NextOpened]_vars

\* a file may be opened as the editor starts; every move command, the
\* selections by one position and the edits are followed up to the first edit
\* of the document
NextNavigate ==
    \/ last.cmd = "new" /\ SetBuffer
    \/ Pristine /\ MoveLeft
    \/ Pristine /\ MoveRight
    \/ Pristine /\ MoveUp
    \/ Pristine /\ MoveDown
    \/ Pristine /\ MoveBeginningOfFile
    \/ Pristine /\ MoveEndOfFile
    \/ Pristine /\ MoveBeginningOfLine
    \/ Pristine /\ MoveEndOfLine
    \/ Pristine /\ MoveBeginningOfWord
    \/ Pristine /\ MoveEndOfWord
    \/ Pristine /\ SelectLeft
    \/ Pristine /\ SelectRight
    \/ Pristine /\ Backspace
    \/ Pristine /\ Enter
    \/ Pristine /\ ReplaceTextInRange

SpecNavigate == Init /\ [][NextNavigate]_vars

\* a file of at most MaxFile characters may be opened as the editor starts;
\* the moves and selections by one position and the clipboard commands are
\* followed up to the first edit of the document
NextClipboard ==
    \/ last.cmd = "new" /\ SetBuffer /\ Len(text') <= MaxFile
    \/ Pristine /\ MoveLeft
    \/ Pristine /\ MoveRight
    \/ Pristine /\ SelectLeft
    \/ Pristine /\ SelectRight
    \/ Pristine /\ Copy
    \/ Pristine /\ CopyNothing
    \/ Pristine /\ Cut
    \/ Pristine /\ CutNothing
    \/ Pristine /\ Paste

SpecClipboard == Init /\ [][NextClipboard]_vars

\* no prompt is open and the editor has not panicked
Idle == raised \notin {"PathPrompt", "Panic"}

\* typing and deleting on a new document and on an opened file, and saving:
\* the path prompt is answered before the next command, nothing runs after a
\* panic, and the document is kept within MaxLen characters
NextSave ==
    \/ last.cmd = "new" /\ SetBuffer /\ Len(text') <= MaxFile
    \/ Idle /\ ReplaceTextInRange /\ Len(text') <= MaxLen
    \/ Idle /\ Backspace
    \/ Idle /\ Save
    \/ Idle /\ SaveAs
    \/ PromptAnswered

SpecSave == Init /\ [][NextSave]_vars

\* a file of one paragraph is opened as the editor starts, and rendered
NextWrap ==
    \/ last.cmd = "new" /\ OpenParagraph
    \/ Idle /\ Render

SpecWrap == Init /\ [][NextWrap]_vars

\* the editor has not panicked
Running == raised # "Panic"

\* typing, moving, saving, new documents and the open-file flow.  The prompts
\* of the flow are awaited in tasks of their own: the commands keep running
\* while one is open.  One flow is followed at a time, and the documents
\* typed and the files opened are kept within MaxSmall characters
NextFiles ==
    \/ Running /\ ReplaceTextInRange /\ Len(text') <= MaxSmall
    \/ Running /\ MoveLeft
    \/ Running /\ MoveRight
    \/ Running /\ SelectLeft
    \/ Running /\ Save
    \/ Running /\ PromptAnswered
    \/ Running /\ NewFile
    \/ Running /\ pending.prompt = "None" /\ OpenFile
    \/ Running /\ SavePromptAnswered
    \/ Running /\ SavePathAnswered
    \/ Running /\ OpenPromptAnswered
    \/ Running /\ pending.prompt = "SetBuffer" /\ SetBuffer /\ Len(text') <= MaxSmall

SpecFiles == Init /\ [][NextFiles]_vars

\* a file may be opened as the editor starts; the cursor is moved by one
\* position and every select command is followed
NextSelect ==
    \/ last.cmd = "new" /\ SetBuffer
    \/ MoveLeft
    \/ MoveRight
    \/ SelectLeft
    \/ SelectRight
    \/ SelectUp
    \/ SelectDown
    \/ SelectBeginningOfFile
    \/ SelectEndOfFile
    \/ SelectBeginningOfLine
    \/ SelectEndOfLine
    \/ SelectBeginningOfWord
    \/ SelectEndOfWord
    \/ SelectAll
    \/ RemoveSelection

SpecSelect == Init /\ [][NextSelect]_vars

\* a file of at most MaxFile characters may be opened as the editor starts; a
\* selection is made by moves and selections by one position, cut, and pasted
\* back right away
NextCutPaste ==
    \/ last.cmd = "new" /\ SetBuffer /\ Len(text') <= MaxFile
    \/ Pristine /\ MoveLeft
    \/ Pristine /\ MoveRight
    \/ Pristine /\ SelectLeft
    \/ Pristine /\ SelectRight
    \/ Pristine /\ Cut
    \/ last.cmd = "cut" /\ Paste

SpecCutPaste == Init /\ [][NextCutPaste]_vars

\* the document is empty or holds one character
Small == Len(text) <= MaxSmall

\* every command of the editor, on the empty document and on the documents of
\* one character that typing leads to
NextSmall ==
    \/ Small /\ Backspace
    \/ Small /\ Enter
    \/ Small /\ ReplaceTextInRange
    \/ Small /\ Copy
    \/ Small /\ CopyNothing
    \/ Small /\ Cut
    \/ Small /\ CutNothing
    \/ Small /\ Paste
    \/ Small /\ MoveLeft
    \/ Small /\ MoveRight
    \/ Small /\ MoveUp
    \/ Small /\ MoveDown
    \/ Small /\ MoveBeginningOfFile
    \/ Small /\ MoveEndOfFile
    \/ Small /\ MoveBeginningOfLine
    \/ Small /\ MoveEndOfLine
    \/ Small /\ MoveBeginningOfWord
    \/ Small /\ MoveEndOfWord
    \/ Small /\ SelectLeft
    \/ Small /\ SelectRight
    \/ Small /\ SelectUp
    \/ Small /\ SelectDown
    \/ Small /\ SelectBeginningOfFile
    \/ Small /\ SelectEndOfFile
    \/ Small /\ SelectBeginningOfLine
    \/ Small /\ SelectEndOfLine
    \/ Small /\ SelectBeginningOfWord
    \/ Small /\ SelectEndOfWord
    \/ Small /\ SelectAll
    \/ Small /\ RemoveSelection

SpecSmall == Init /\ [][NextSmall]_vars

-----------------------------------------------------------------------------
(* Properties *)

\* the positions of a document: a line of the document and a column of it
ValidPosition(t, p) ==
    LET ls == lines(t)
    IN  /\ p.y >= 0
        /\ p.y < Len(ls)
        /\ p.x >= beginning(ls[p.y + 1])
        /\ p.x <= end(ls[p.y + 1])

\* the positions an edit location holds
PositionsOf(location) ==
    IF location.kind = "Cursor" THEN {location.position}
    ELSE {location.start, location.end}

ValidLocation(t, location) ==
    IF location.kind = "Cursor" THEN ValidPosition(t, location.position)
    ELSE ValidPosition(t, location.start) /\ ValidPosition(t, location.end)

\* t without the characters at the offsets from..to-1
Without(t, from, to) == SubSeq(t, 1, from) \o SubSeq(t, to + 1, Len(t))

\* t with the text inserted at the offset
WithInserted(t, offset, inserted) ==
    SubSeq(t, 1, offset) \o inserted \o SubSeq(t, offset + 1, Len(t))

\* the command that ran last started from a valid Cursor / a valid Selection
FromCursor == last.edit_location.kind = "Cursor" /\ ValidLocation(last.text, last.edit_location)

FromSelection ==
    last.edit_location.kind = "Selection" /\ ValidLocation(last.text, last.edit_location)

\* C1 (as claimed): after an edit command that started from a valid edit
\* location, every position of the edit location is a valid position of the
\* document
C1_EditLocationValid ==
    (last.cmd \in {"insert", "backspace", "enter", "cut", "paste"}
        /\ ValidLocation(last.text, last.edit_location))
    => ValidLocation(text, edit_location)

\* C2: converting a valid position of the document (the commands take the
\* edit location to every one of them) to its offset and back gives the
\* position again
C2_RoundTrip ==
    \A p \in PositionsOf(edit_location) :
        ValidPosition(text, p) =>
            offset_to_position(text, position_to_offset(text, p)) = p

\* the cursor stands in a marker column of a heading that is not the first line
C2_Witness ==
    /\ edit_location.kind = "Cursor"
    /\ ValidPosition(text, edit_location.position)
    /\ edit_location.position.y >= 1
    /\ edit_location.position.x < 0
    /\ position_to_offset(text, edit_location.position) < Len(text)

\* the Cursor the command started from is where C3 says backspace removes one
\* character
C3_Applies ==
    /\ last.cmd = "backspace"
    /\ FromCursor
    /\ last.edit_location.position # beginning_of_file_position(last.text)
    /\ ~(line(last.text, last.edit_location.position.y).kind = "HeadlineStart"
          /\ last.edit_location.position.x = 0)

\* C3 (as claimed): such a backspace removes exactly the character left of the
\* cursor and leaves the Cursor where that character was
C3_BackspaceRemovesOne ==
    C3_Applies =>
        LET o == position_to_offset(last.text, last.edit_location.position)
        IN  /\ text = Without(last.text, o - 1, o)
            /\ edit_location.kind = "Cursor"
            /\ edit_location.position = offset_to_position(text, o - 1)

\* backspace ran from a Cursor at x = 0 of a HeadlineStart line
C4_Applies ==
    /\ last.cmd = "backspace"
    /\ FromCursor
    /\ line(last.text, last.edit_location.position.y).kind = "HeadlineStart"
    /\ last.edit_location.position.x = 0

\* offset of the first character of line y
line_start(t, y) == lines_before(lines(t), y)

RECURSIVE Hashes(_)
Hashes(n) == IF n = 0 THEN <<>> ELSE <<"#">> \o Hashes(n - 1)

C5_BackspaceAtStartIsNoOp ==
    (last.cmd = "backspace" /\ last.edit_location.kind = "Cursor"
        /\ last.edit_location.position = beginning_of_file_position(last.text))
    => /\ text = last.text
       /\ edit_location = last.edit_location
       /\ is_saved = last.is_saved
       /\ file = last.file

\* Scenario A: backspace ran at (0, -3) of the saved document "## Title ..."
C5_Witness ==
    /\ last.cmd = "backspace"
    /\ last.text = ScenarioA
    /\ last.edit_location = Cursor(EditorPosition(0, -3), -3)
    /\ beginning_of_file_position(last.text) = EditorPosition(0, -3)
    /\ last.is_saved
    /\ is_saved

\* C6: backspace with a Selection removes exactly the characters between
\* smallest() and largest() and leaves a Cursor at
\* (smallest().y, max(0, smallest().x))
C6_BackspaceSelection ==
    (last.cmd = "backspace" /\ FromSelection) =>
        LET small == smallest(last.edit_location)
            large == largest(last.edit_location)
        IN  /\ text = Without(last.text, position_to_offset(last.text, small),
                              position_to_offset(last.text, large))
            /\ edit_location.kind = "Cursor"
            /\ edit_location.position = EditorPosition(small.y, Max(0, small.x))

\* a Backwards selection over a line break that starts in a marker column was
\* deleted
C6_Witness ==
    /\ last.cmd = "backspace"
    /\ FromSelection
    /\ direction(last.edit_location) = "Backwards"
    /\ last.edit_location.start.y > last.edit_location.end.y
    /\ last.edit_location.end.x < 0
    /\ Len(text) < Len(last.text)

\* Scenario D: the selection (2,5)..(2,1) of "Hello world" was deleted
C7_Applies ==
    /\ last.cmd = "backspace"
    /\ last.text = ScenarioD
    /\ last.edit_location = Selection(EditorPosition(2, 5), EditorPosition(2, 1))

\* C7 (as claimed): smallest (2,1), largest (2,5), Backwards, and the line
\* becomes "Hworld" with the Cursor at (2,1)
C7_ScenarioD_Hworld ==
    C7_Applies =>
        /\ smallest(last.edit_location) = EditorPosition(2, 1)
        /\ largest(last.edit_location) = EditorPosition(2, 5)
        /\ direction(last.edit_location) = "Backwards"
        /\ line(text, 2).text = <<"H", "w", "o", "r", "l", "d">>
        /\ edit_location.kind = "Cursor"
        /\ edit_location.position = EditorPosition(2, 1)

\* C7 (amended): smallest (2,1), largest (2,5), Backwards, and the line becomes
\* "H world" (the four characters "ello" are removed) with the Cursor at (2,1)
C7_ScenarioD ==
    C7_Applies =>
        /\ smallest(last.edit_location) = EditorPosition(2, 1)
        /\ largest(last.edit_location) = EditorPosition(2, 5)
        /\ direction(last.edit_location) = "Backwards"
        /\ line(text, 2).text = <<"H", " ", "w", "o", "r", "l", "d">>
        /\ text = <<NL, NL, "H", " ", "w", "o", "r", "l", "d">>
        /\ edit_location.kind = "Cursor"
        /\ edit_location.position = EditorPosition(2, 1)

C7_Witness == C7_Applies /\ Len(text) = Len(ScenarioD) - 4

\* the heading-space special case of the input handler: a single space typed
\* at a Cursor whose x is the level of the HeadlineStart line it is on once
\* the space is in
HeadingSpace ==
    /\ last.arg = <<" ">>
    /\ last.edit_location.kind = "Cursor"
    /\ line(text, last.edit_location.position.y).kind = "HeadlineStart"
    /\ last.edit_location.position.x = line(text, last.edit_location.position.y).level

\* C8 (as claimed): text inserted at a Cursor goes in at the cursor's offset
\* and the Cursor is left at the position of that offset plus the length of
\* the text
C8_InsertAtCursor ==
    (last.cmd = "insert" /\ FromCursor /\ ~HeadingSpace) =>
        LET o == position_to_offset(last.text, last.edit_location.position)
        IN  /\ text = WithInserted(last.text, o, last.arg)
            /\ edit_location.kind = "Cursor"
            /\ edit_location.position = offset_to_position(text, o + Len(last.arg))

\* C9: a single space typed with the Cursor at x = level on a line that is
\* HeadlineStart(level) leaves the Cursor at (y, 0) with preferred_x 0
C9_HeadingSpace ==
    (last.cmd = "insert" /\ FromCursor /\ HeadingSpace) =>
        edit_location = Cursor(EditorPosition(last.edit_location.position.y, 0), 0)

\* Scenario C: the space typed at (0,2) of "##X" made it "## X"
C9_Witness ==
    /\ last.cmd = "insert"
    /\ last.arg = <<" ">>
    /\ last.text = ScenarioC
    /\ last.edit_location = Cursor(EditorPosition(0, 2), 2)
    /\ text = <<"#", "#", " ", "X">>
    /\ edit_location = Cursor(EditorPosition(0, 0), 0)
    /\ edit_location.position # EditorPosition(0, 3)

\* C10 (as claimed): text inserted over a Selection replaces exactly the
\* selected characters and leaves a Cursor at the position of smallest()'s
\* offset plus the length of the text
C10_InsertOverSelection ==
    (last.cmd = "insert" /\ FromSelection) =>
        LET from == position_to_offset(last.text, smallest(last.edit_location))
            to == position_to_offset(last.text, largest(last.edit_location))
        IN  /\ text = SubSeq(last.text, 1, from) \o last.arg
                        \o SubSeq(last.text, to + 1, Len(last.text))
            /\ edit_location.kind = "Cursor"
            /\ edit_location.position = offset_to_position(text, from + Len(last.arg))

\* enter ran from a valid edit location
C11_Applies == last.cmd = "enter" /\ ValidLocation(last.text, last.edit_location)

\* C11 (as claimed): Enter replaces the edit range with one line break and
\* leaves a Cursor at the beginning of the line after the line of the smaller
\* endpoint
C11_EnterBreaksLine ==
    C11_Applies =>
        LET range == edit_range(last.edit_location)
            from == position_to_offset(last.text, range.start)
            to == position_to_offset(last.text, range.end)
            y == range.start.y + 1
        IN  /\ text = SubSeq(last.text, 1, from) \o <<NL>>
                        \o SubSeq(last.text, to + 1, Len(last.text))
            /\ edit_location.kind = "Cursor"
            /\ edit_location.position = EditorPosition(y, beginning(line(text, y)))

\* the Cursor a move command leaves at a position with that position's x
CursorAt(position) == Cursor(position, position.x)

\* the move command of that name applied to an edit location
MoveOf(cmd, t, location) ==
    CASE cmd = "move_left" -> move_left(t, location)
      [] cmd = "move_right" -> move_right(t, location)
      [] cmd = "move_up" -> move_up(t, location)
      [] cmd = "move_down" -> move_down(t, location)
      [] cmd = "move_beginning_of_word" -> move_beginning_of_word(t, location)
      [] cmd = "move_end_of_word" -> move_end_of_word(t, location)
      [] cmd = "move_beginning_of_line" -> move_beginning_of_line(t, location)
      [] cmd = "move_end_of_line" -> move_end_of_line(t, location)

\* C12: from a Selection, move_left, move_up and move_beginning_of_word start
\* from smallest(), move_right, move_down and move_end_of_word from largest(),
\* move_beginning_of_line and move_end_of_line from the floating end; each
\* leaves a Cursor, and for the first six the same one whichever endpoint is
\* the anchor
C12_MoveCollapsesSelection ==
    FromSelection =>
        LET t == last.text
            small == smallest(last.edit_location)
            large == largest(last.edit_location)
            floating == last.edit_location.end
            swapped == Selection(last.edit_location.end, last.edit_location.start)
        IN  /\ last.cmd = "move_left" => edit_location = CursorAt(left_position(t, small))
            /\ last.cmd = "move_up" =>
                   edit_location = CursorAt(up_position(t, small, small.x))
            /\ last.cmd = "move_beginning_of_word" =>
                   edit_location = CursorAt(beginning_of_word_position(t, small))
            /\ last.cmd = "move_right" => edit_location = CursorAt(right_position(t, large))
            /\ last.cmd = "move_down" =>
                   edit_location = CursorAt(down_position(t, large, large.x))
            /\ last.cmd = "move_end_of_word" =>
                   edit_location = CursorAt(end_of_word_position(t, large))
            /\ last.cmd = "move_beginning_of_line" =>
                   edit_location = CursorAt(beginning_of_line_position(t, floating))
            /\ last.cmd = "move_end_of_line" =>
                   edit_location = CursorAt(end_of_line_position(t, floating))
            /\ last.cmd \in {"move_left", "move_up", "move_beginning_of_word",
                             "move_right", "move_down", "move_end_of_word"} =>
                   edit_location = MoveOf(last.cmd, t, swapped)

\* move_right collapsed a Backwards selection over several lines to the right
\* of its start, the larger endpoint
C12_Witness ==
    /\ last.cmd = "move_right"
    /\ FromSelection
    /\ direction(last.edit_location) = "Backwards"
    /\ last.edit_location.start.y > last.edit_location.end.y
    /\ edit_location = CursorAt(EditorPosition(last.edit_location.start.y,
                                               last.edit_location.start.x + 1))

\* C13: left_position of a valid position: at the line's beginning() it is
\* the position itself on line 0 and the end() of the previous line
\* otherwise; elsewhere it is one column to the left, marker columns included
C13_LeftPosition ==
    (last.cmd = "move_left" /\ FromCursor) =>
        LET pos == last.edit_location.position
            result == left_position(last.text, pos)
        IN  /\ edit_location = CursorAt(result)
            /\ (pos.x = beginning(line(last.text, pos.y)) /\ pos.y = 0) => result = pos
            /\ (pos.x = beginning(line(last.text, pos.y)) /\ pos.y > 0) =>
                   result = EditorPosition(pos.y - 1, end(line(last.text, pos.y - 1)))
            /\ pos.x > beginning(line(last.text, pos.y)) =>
                   result = EditorPosition(pos.y, pos.x - 1)

\* move_left stepped from x = 0 into the marker columns of a heading below
\* the first line
C13_Witness ==
    /\ last.cmd = "move_left"
    /\ FromCursor
    /\ last.edit_location.position.y >= 1
    /\ last.edit_location.position.x = 0
    /\ line(text, last.edit_location.position.y).kind = "HeadlineStart"
    /\ edit_location.position = EditorPosition(last.edit_location.position.y, -1)

\* C14: right_position of a valid position: at the line's end() it is the
\* position itself on the last line and (y + 1, 0) otherwise; elsewhere it is
\* one column to the right
C14_RightPosition ==
    (last.cmd = "move_right" /\ FromCursor) =>
        LET pos == last.edit_location.position
            last_y == Len(lines(last.text)) - 1
            result == right_position(last.text, pos)
        IN  /\ edit_location = CursorAt(result)
            /\ (pos.x = end(line(last.text, pos.y)) /\ pos.y = last_y) => result = pos
            /\ (pos.x = end(line(last.text, pos.y)) /\ pos.y < last_y) =>
                   result = EditorPosition(pos.y + 1, 0)
            /\ pos.x < end(line(last.text, pos.y)) =>
                   result = EditorPosition(pos.y, pos.x + 1)
            /\ ValidPosition(text, result)

\* move_right went from the end of a line to x = 0 of a heading, to the right
\* of the heading's marker columns
C14_Witness ==
    /\ last.cmd = "move_right"
    /\ FromCursor
    /\ last.edit_location.position.x
           = end(line(text, last.edit_location.position.y))
    /\ edit_location.position = EditorPosition(last.edit_location.position.y + 1, 0)
    /\ line(text, edit_location.position.y).kind = "HeadlineStart"
    /\ beginning(line(text, edit_location.position.y)) < 0

\* C15: up_position and down_position of a valid position with a preferred
\* x: the adjacent line at clamp_x(preferred x); on the first line up and on
\* the last line down a valid position of the same line (its beginning, its
\* end)
C15_UpDownPosition ==
    (last.cmd \in {"move_up", "move_down"} /\ FromCursor) =>
        LET t == last.text
            pos == last.edit_location.position
            px == last.edit_location.preferred_x
            last_y == Len(lines(t)) - 1
            up == up_position(t, pos, px)
            down == down_position(t, pos, px)
        IN  /\ last.cmd = "move_up" => edit_location.position = up
            /\ last.cmd = "move_down" => edit_location.position = down
            /\ pos.y > 0 =>
                   up = EditorPosition(pos.y - 1, clamp_x(line(t, pos.y - 1), px))
            /\ pos.y < last_y =>
                   down = EditorPosition(pos.y + 1, clamp_x(line(t, pos.y + 1), px))
            /\ pos.y = 0 => up = EditorPosition(0, beginning(line(t, 0)))
            /\ pos.y = last_y => down = EditorPosition(last_y, end(line(t, last_y)))
            /\ ValidPosition(t, up)
            /\ ValidPosition(t, down)

\* move_down went to a shorter line and the preferred x was clamped to its end
C15_Witness ==
    /\ last.cmd = "move_down"
    /\ FromCursor
    /\ edit_location.position.y = last.edit_location.position.y + 1
    /\ edit_location.position.x = end(line(text, edit_location.position.y))
    /\ edit_location.position.x < last.edit_location.preferred_x

\* the commands that set preferred_x to the x they move to
SetsPreferredX ==
    {"move_left", "move_right", "move_beginning_of_file", "move_end_of_file",
     "move_beginning_of_line", "move_end_of_line", "move_beginning_of_word",
     "move_end_of_word", "enter", "insert"}

\* C16 (as claimed): move_up and move_down from a Cursor keep preferred_x, so
\* on an adjacent line whose columns contain preferred_x the cursor's x is
\* preferred_x; every other move and every edit (a backspace that deletes
\* something included) leaves a Cursor whose preferred_x is its x
C16_PreferredX ==
    /\ (last.cmd \in {"move_up", "move_down"} /\ FromCursor) =>
           LET px == last.edit_location.preferred_x
               l == line(text, edit_location.position.y)
           IN  /\ edit_location.kind = "Cursor"
               /\ edit_location.preferred_x = px
               /\ (edit_location.position.y # last.edit_location.position.y
                       /\ beginning(l) <= px /\ px <= end(l))
                   => edit_location.position.x = px
    /\ (ValidLocation(last.text, last.edit_location)
            /\ (last.cmd \in SetsPreferredX
                   \/ (last.cmd = "backspace" /\ text # last.text)))
       => /\ edit_location.kind = "Cursor"
          /\ edit_location.preferred_x = edit_location.position.x

\* the word boundary the claim names before a valid position: the nearest
\* word start before it on its line; with none, the beginning of the file on
\* line 0, the beginning() of a blank previous line, and otherwise the last
\* word start of the previous line
BoundaryBefore(t, pos) ==
    LET l == line(t, pos.y)
        before == {i \in word_starts(l.text) : i < pos.x - beginning(l)}
        previous == line(t, pos.y - 1)
    IN  IF before # {} THEN EditorPosition(pos.y, beginning(l) + set_max(before))
        ELSE IF pos.y = 0 THEN EditorPosition(0, beginning(line(t, 0)))
        ELSE IF is_blank(previous.text)
        THEN EditorPosition(pos.y - 1, beginning(previous))
        ELSE EditorPosition(pos.y - 1,
                            beginning(previous) + set_max(word_starts(previous.text)))

\* the word boundary the claim names after a valid position: the nearest word
\* start after it on its line; with none, the end of the file on the last
\* line, the beginning() of a blank next line, and otherwise the first word
\* start of the next line
BoundaryAfter(t, pos) ==
    LET l == line(t, pos.y)
        after == {i \in word_starts(l.text) : i > pos.x - beginning(l)}
        last_y == Len(lines(t)) - 1
        next == line(t, pos.y + 1)
    IN  IF after # {} THEN EditorPosition(pos.y, beginning(l) + set_min(after))
        ELSE IF pos.y = last_y THEN EditorPosition(last_y, end(line(t, last_y)))
        ELSE IF is_blank(next.text) THEN EditorPosition(pos.y + 1, beginning(next))
        ELSE EditorPosition(pos.y + 1, beginning(next) + set_min(word_starts(next.text)))

\* C17: beginning_of_word_position / end_of_word_position of a valid position
\* are the nearest word boundary before / after it on its line, and with none
\* on the line the boundary in the previous / next line, a blank line being a
\* stop at its beginning(), or the document edge
C17_WordPositions ==
    /\ (last.cmd = "move_beginning_of_word" /\ FromCursor) =>
           /\ edit_location = CursorAt(BoundaryBefore(last.text, last.edit_location.position))
           /\ ValidPosition(text, edit_location.position)
           /\ ~less(last.edit_location.position, edit_location.position)
    /\ (last.cmd = "move_end_of_word" /\ FromCursor) =>
           /\ edit_location = CursorAt(BoundaryAfter(last.text, last.edit_location.position))
           /\ ValidPosition(text, edit_location.position)
           /\ ~less(edit_location.position, last.edit_location.position)

\* move_beginning_of_word started right of its line's beginning() with no
\* word start before it and went to a word of the previous line
C17_Witness ==
    /\ last.cmd = "move_beginning_of_word"
    /\ FromCursor
    /\ last.edit_location.position.x
           > beginning(line(text, last.edit_location.position.y))
    /\ edit_location.position.y = last.edit_location.position.y - 1
    /\ ~is_blank(line(text, edit_location.position.y).text)
    /\ word_start(line(text, edit_location.position.y).text,
                  edit_location.position.x
                      - beginning(line(text, edit_location.position.y)))

\* C18: beginning_of_file_position is (0, line(0).beginning()) and
\* end_of_file_position is (last_y, line(last_y).end()); both are valid
\* positions of the document, no valid position is smaller than the first or
\* larger than the second, and move_beginning_of_file / move_end_of_file go
\* there
C18_FileEnds ==
    LET last_y == Len(lines(text)) - 1
        first == beginning_of_file_position(text)
        final == end_of_file_position(text)
    IN  /\ first = EditorPosition(0, beginning(line(text, 0)))
        /\ final = EditorPosition(last_y, end(line(text, last_y)))
        /\ ValidPosition(text, first)
        /\ ValidPosition(text, final)
        /\ ~less(final, first)
        /\ \A p \in PositionsOf(edit_location) :
               ValidPosition(text, p) => ~less(p, first) /\ ~less(final, p)
        /\ last.cmd = "move_beginning_of_file" => edit_location = CursorAt(first)
        /\ last.cmd = "move_end_of_file" => edit_location = CursorAt(final)

\* move_beginning_of_file went from a later line to the first marker column
\* of a heading on line 0
C18_Witness ==
    /\ last.cmd = "move_beginning_of_file"
    /\ FromCursor
    /\ last.edit_location.position.y >= 1
    /\ edit_location.position.y = 0
    /\ edit_location.position.x < 0
    /\ less(edit_location.position, end_of_file_position(text))

\* the indexes of the HeadlineStart lines of a text
HeadlineStarts(t) ==
    {y \in 0..(Len(lines(t)) - 1) : lines(t)[y + 1].kind = "HeadlineStart"}

\* position_to_offset as the claim gives it: the lines before with their line
\* breaks, the marker of a HeadlineStart line, and x, floored at 0
OffsetFormula(t, p) ==
    LET l == line(t, p.y)
    IN  Max(0, line_start(t, p.y)
                 + (IF l.kind = "HeadlineStart" THEN l.level + 1 ELSE 0) + p.x)

\* what C19 and its amended form share: beginning() of a HeadlineStart line
\* of level L is -(L+1), (y, 0) is L+1 characters after (y, -(L+1)), and
\* position_to_offset of the valid positions held follows the formula
C19_Offsets ==
    /\ \A y \in HeadlineStarts(text) :
           LET l == line(text, y)
           IN  /\ beginning(l) = -(l.level + 1)
               /\ position_to_offset(text, EditorPosition(y, 0))
                      = position_to_offset(text, EditorPosition(y, beginning(l)))
                            + l.level + 1
    /\ \A p \in PositionsOf(edit_location) :
           ValidPosition(text, p) => position_to_offset(text, p) = OffsetFormula(text, p)

IsMarked(raw, n) ==
    \E k \in 0..Len(raw) :
        /\ k + n + 1 <= Len(raw)
        /\ \A i \in 1..k : is_whitespace(raw[i])
        /\ \A i \in (k + 1)..(k + n) : raw[i] = "#"
        /\ raw[k + n + 1] = " "

\* line y of the text is HeadlineStart(level) exactly when it is marked with
\* 1 to 6 '#', level of them; an empty line is Normal
RightlyHeadlineStart(t, y) ==
    LET l == lines(t)[y + 1]
    IN  /\ \A n \in 1..(Len(l.text) + 1) :
               (l.kind = "HeadlineStart" /\ l.level = n)
                   <=> (n <= 6 /\ IsMarked(l.text, n))
        /\ l.text = <<>> => l.kind = "Normal"
        /\ l.kind \in {"Normal", "HeadlineStart", "HeadlineNotStart"}

\* line y follows a line of a heading
AfterHeadline(t, y) ==
    y > 0 /\ lines(t)[y].kind \in {"HeadlineStart", "HeadlineNotStart"}

line_breaks(t) == Cardinality({i \in 1..Len(t) : t[i] = NL})

\* the text after the last line break of a text
terminal_text(t) ==
    LET breaks == {i \in 1..Len(t) : t[i] = NL}
    IN  IF breaks = {} THEN t ELSE SubSeq(t, set_max(breaks) + 1, Len(t))

C22_Applies ==
    /\ last.cmd \notin {"new", "set_buffer"}
    /\ Len(last.text) <= MaxSmall
    /\ ValidLocation(last.text, last.edit_location)

\* C22 (as claimed): a command on an empty or one-character document asks for
\* no line past the last one (enter reads the line below the end of its
\* range after the replacement) and leaves a valid edit location
C22_SmallDocuments ==
    C22_Applies =>
        /\ last.cmd = "enter"
               => edit_range(last.edit_location).end.y + 1 < Len(lines(text))
        /\ ValidLocation(text, edit_location)

\* C23: for every line of the document and every preferred_x, the negative
\* ones and the ones beyond the line included, clamp_x(preferred_x) lies in
\* [beginning(), end()] and is preferred_x itself when preferred_x lies in
\* that interval; so the column move_up and move_down put a cursor on is a
\* column of the line they go to
C23_ClampBound ==
    LET ls == lines(text)
        far == Len(text) + 8
    IN  /\ \A y \in 1..Len(ls) : \A preferred_x \in (-far)..far :
               LET x == clamp_x(ls[y], preferred_x)
               IN  /\ beginning(ls[y]) <= x
                   /\ x <= end(ls[y])
                   /\ (beginning(ls[y]) <= preferred_x /\ preferred_x <= end(ls[y]))
                          => x = preferred_x
        /\ (last.cmd \in {"move_up", "move_down"} /\ FromCursor
                /\ edit_location.position.y # last.edit_location.position.y)
               => /\ edit_location.position.x
                         = clamp_x(line(text, edit_location.position.y),
                                   last.edit_location.preferred_x)
                  /\ ValidPosition(text, edit_location.position)

\* move_down took a cursor from a marker column of a heading, with a negative
\* preferred_x, to the line below, where it was clamped to column 0
C23_Witness ==
    /\ last.cmd = "move_down"
    /\ FromCursor
    /\ last.edit_location.preferred_x < 0
    /\ edit_location.position.y = last.edit_location.position.y + 1
    /\ edit_location.position.x = 0
    /\ beginning(line(text, edit_location.position.y)) = 0

\* the valid positions of a text
ValidPositions(t) ==
    LET ls == lines(t)
    IN  UNION {{EditorPosition(y - 1, x) : x \in beginning(ls[y])..end(ls[y])}
                   : y \in 1..Len(ls)}

\* C24: replace_range(p..p, "") changes neither the text nor its lines,
\* whatever valid position p is, also when it is applied a second time; paste
\* of an empty clipboard at a Cursor, which makes that call, leaves the text
\* as it was
C24_EmptyReplace ==
    /\ \A p \in ValidPositions(text) :
           LET once == replace_range(text, p, p, <<>>)
           IN  /\ once = text
               /\ lines(once) = lines(text)
               /\ replace_range(once, p, p, <<>>) = once
    /\ (last.cmd = "paste" /\ last.arg = <<>> /\ FromCursor)
           => text = last.text /\ lines(text) = lines(last.text)

\* paste of an empty clipboard ran at a marker column of a heading above
\* another line
C24_Witness ==
    /\ last.cmd = "paste"
    /\ last.arg = <<>>
    /\ FromCursor
    /\ last.edit_location.position.x < 0
    /\ Len(lines(last.text)) >= 2
    /\ text = last.text

\* a is before b in the lexicographic order of (y, x)
Lexicographic(a, b) == a.y < b.y \/ (a.y = b.y /\ a.x < b.x)

\* the positions the command that ran last started from and ended at, and the
\* two ends of the document
PositionsAtHand ==
    PositionsOf(edit_location) \cup PositionsOf(last.edit_location)
        \cup {beginning_of_file_position(text), end_of_file_position(text)}

\* C25: the order of EditorPosition is the lexicographic order of (y, x) and
\* is total (of two positions exactly one of before, equal, after holds, and
\* before is transitive); a Selection runs Backwards exactly when its end is
\* before its start and Forwards otherwise, smallest() is not after
\* largest(), and the two are the two ends of the selection
C25_Order ==
    /\ \A a, b \in PositionsAtHand :
           /\ less(a, b) <=> Lexicographic(a, b)
           /\ partial_cmp(a, b) = "Less" <=> less(a, b)
           /\ partial_cmp(a, b) = "Greater" <=> less(b, a)
           /\ partial_cmp(a, b) = "Equal" <=> a = b
           /\ ~(less(a, b) /\ less(b, a))
           /\ \A c \in PositionsAtHand : (less(a, b) /\ less(b, c)) => less(a, c)
    /\ \A selection \in {edit_location, last.edit_location} :
           selection.kind = "Selection" =>
               /\ direction(selection) = "Backwards"
                      <=> Lexicographic(selection.end, selection.start)
               /\ direction(selection) = "Forwards"
                      <=> ~Lexicographic(selection.end, selection.start)
               /\ ~Lexicographic(largest(selection), smallest(selection))
               /\ {smallest(selection), largest(selection)}
                      = {selection.start, selection.end}

\* select_left made a Backwards selection whose end is on the line above its
\* start and in a column right of it
C25_Witness ==
    /\ last.cmd = "select_left"
    /\ edit_location.kind = "Selection"
    /\ edit_location.end.y < edit_location.start.y
    /\ edit_location.end.x > edit_location.start.x
    /\ direction(edit_location) = "Backwards"
    /\ smallest(edit_location) = edit_location.end

\* the commands that call replace_range, and the opening of a file
Mutators == {"insert", "backspace", "enter", "cut", "paste", "set_buffer"}

\* the move, select, select-all, collapse-selection and copy commands
Readers ==
    {"move_left", "move_right", "move_up", "move_down",
     "move_beginning_of_file", "move_end_of_file",
     "move_beginning_of_line", "move_end_of_line",
     "move_beginning_of_word", "move_end_of_word",
     "select_left", "select_right", "select_up", "select_down",
     "select_beginning_of_file", "select_end_of_file",
     "select_beginning_of_line", "select_end_of_line",
     "select_beginning_of_word", "select_end_of_word",
     "select_all", "remove_selection", "copy"}

\* C26: a move, select, select-all, collapse-selection or copy command leaves
\* the text, the file association and the saved-state as they were; the text
\* and the saved-state differ from what they were only after a command that
\* calls replace_range
C26_TextFrame ==
    /\ last.cmd \in Readers
           => /\ text = last.text
              /\ is_saved = last.is_saved
              /\ file = last.file
    /\ (text # last.text \/ is_saved # last.is_saved) => last.cmd \in Mutators
    /\ last.cmd \in Readers \cup Mutators \cup {"new"}

\* a selection was made on a saved document and one on a changed document,
\* and the document stayed saved and stayed changed
C26_Witness ==
    /\ last.cmd = "select_beginning_of_word"
    /\ edit_location.kind = "Selection"
    /\ text # <<>>
    /\ text = last.text
    /\ ~is_saved
    /\ ~last.is_saved

\* C27: Buffer::save on a buffer without a file returns NoFileAssociated and
\* leaves the file association and the saved-state as they are, whatever the
\* file system would answer; the save command on such a buffer raises the
\* path prompt, nothing else, and leaves the text, the file association and
\* the saved-state as they were
C27_SaveWithoutFile ==
    /\ file = "None" =>
           \A write \in IoResults :
               buffer_save(file, is_saved, write)
                   = [result |-> "NoFileAssociated", file |-> "None",
                      is_saved |-> is_saved]
    /\ (last.cmd = "save" /\ last.file = "None") =>
           /\ raised = "PathPrompt"
           /\ text = last.text
           /\ file = "None"
           /\ is_saved = last.is_saved
           /\ edit_location = last.edit_location

\* the save command ran on a changed document that has no file
C27_Witness ==
    /\ last.cmd = "save"
    /\ last.file = "None"
    /\ ~last.is_saved
    /\ last.text # <<>>
    /\ raised = "PathPrompt"
    /\ ~is_saved

\* the command that ran last saved, or associated a file, and the file system
\* answered one of its calls with an error
C28_IoFailed ==
    \/ /\ last.cmd = "save"
       /\ last.file = "Some"
       /\ last.arg = <<"IoError">>
    \/ /\ last.cmd = "set_file"
       /\ last.arg[1] = "Md"
       /\ (last.arg[2] = "IoError" \/ last.arg[3] = "IoError")

\* C28 (as claimed): when the file system fails a save or the association of
\* a file, the editor raises the error prompt, it does not panic, and the
\* text, the file association and the saved-state are as they were
C28_IoErrorSurfaced ==
    (last.cmd \in {"save", "set_file"} /\ C28_IoFailed) =>
        /\ raised = "ErrorPrompt"
        /\ text = last.text
        /\ file = last.file
        /\ is_saved = last.is_saved

\* b is the word start of s nearest before the offset
NearestBefore(s, offset, b) ==
    /\ word_start(s, b)
    /\ b < offset
    /\ \A i \in (b + 1)..(offset - 1) : ~word_start(s, i)

\* b is the word start of s nearest after the offset
NearestAfter(s, offset, b) ==
    /\ word_start(s, b)
    /\ b > offset
    /\ \A i \in (offset + 1)..(b - 1) : ~word_start(s, i)

\* the raw texts of the lines of the document
LineTexts == {lines(text)[y].text : y \in 1..Len(lines(text))}

\* the two boundaries of "alpha beta gamma", and the word moves that ask for
\* them
C29_Scenario ==
    /\ next_word_boundary(AlphaBetaGamma, 0) = 6
    /\ previous_word_boundary(AlphaBetaGamma, 11) = 6
    /\ (text = AlphaBetaGamma /\ last.cmd = "move_end_of_word"
            /\ last.edit_location = CursorAt(EditorPosition(0, 0)))
           => edit_location = CursorAt(EditorPosition(0, 6))
    /\ (text = AlphaBetaGamma /\ last.cmd = "move_beginning_of_word"
            /\ last.edit_location = CursorAt(EditorPosition(0, 11)))
           => edit_location = CursorAt(EditorPosition(0, 6))

\* next_word_boundary of every line of the document at every offset: the
\* nearest word start after the offset, or none when the line has none there
C29_Next ==
    \A s \in LineTexts : \A offset \in 0..Len(s) :
        LET b == next_word_boundary(s, offset)
        IN  IF \E i \in word_starts(s) : i > offset
            THEN NearestAfter(s, offset, b)
            ELSE b = None

RECURSIVE Joined(_)
\* the number of characters the sub-lines came from: theirs, and one
\* whitespace for each break
Joined(sublines) ==
    IF Len(sublines) = 0 THEN 0
    ELSE IF Len(sublines) = 1 THEN Len(sublines[1])
    ELSE Len(sublines[1]) + 1 + Joined(Tail(sublines))

RECURSIVE BrokenAtWhitespace(_, _, _)
\* the sub-lines are the text s from the offset on, cut at whitespace
\* characters that are left out, each cut at the last whitespace at or before
\* column W of what was left
BrokenAtWhitespace(s, from, sublines) ==
    IF Len(sublines) = 1 THEN sublines[1] = slice(s, from, Len(s))
    ELSE LET k == from + Len(sublines[1])
         IN  /\ sublines[1] = slice(s, from, k)
             /\ k < Len(s)
             /\ is_whitespace(s[k + 1])
             /\ k - from <= CHARACTER_COUNT_PER_LINE
             /\ \A j \in (k + 1)..(from + CHARACTER_COUNT_PER_LINE) :
                    j < Len(s) => ~is_whitespace(s[j + 1])
             /\ BrokenAtWhitespace(s, k + 1, Tail(sublines))

\* the wrapped sub-lines of a text are as the claim has them
WrappedAsClaimed(s) ==
    LET wrapped == wrap(s, CHARACTER_COUNT_PER_LINE)
    IN  /\ wrapped.result \in {"Ok", "UnwrappableLine"}
        /\ wrapped.result = "UnwrappableLine"
               => \A j \in 1..Min(Len(s), CHARACTER_COUNT_PER_LINE) : ~is_whitespace(s[j])
        /\ wrapped.result = "Ok"
               => /\ \A i \in 1..Len(wrapped.lines) :
                         Len(wrapped.lines[i]) <= CHARACTER_COUNT_PER_LINE
                  /\ BrokenAtWhitespace(s, 0, wrapped.lines)
        /\ s = ScenarioE => wrapped.result = "Ok" /\ Len(wrapped.lines) = 2

Selectors ==
    {"select_left", "select_right", "select_up", "select_down",
     "select_beginning_of_file", "select_end_of_file",
     "select_beginning_of_line", "select_end_of_line",
     "select_beginning_of_word", "select_end_of_word", "select_all"}

\* C31: the edit location is never a Selection whose start is its end
C31_NoEmptySelection ==
    edit_location.kind = "Selection" => edit_location.start # edit_location.end

\* a select command took the end of a Selection back to its start, and left a
\* Cursor there
C31_Witness ==
    /\ last.cmd \in Selectors
    /\ last.edit_location.kind = "Selection"
    /\ edit_location = Cursor(last.edit_location.start, last.edit_location.start.x)

\* C32 (as claimed): after new_file or set_buffer replaced the document by a
\* different one, with the edit location a valid one of the document
\* replaced, the edit location is a valid one of the new document
C32_ReplacedBufferLocation ==
    (/\ last.cmd \in {"new_file", "set_buffer"}
     /\ text # last.text
     /\ ValidLocation(last.text, last.edit_location))
    => ValidLocation(text, edit_location)

\* the position a selection is extended from: the Cursor's position, the
\* Selection's start
AnchorOf(location) ==
    IF location.kind = "Cursor" THEN location.position ELSE location.start

\* C33: every select command but select_all keeps the anchor: the start of
\* the Selection it leaves, or the position of the Cursor it leaves, is the
\* position of the Cursor, or the start of the Selection, it started from
C33_AnchorKept ==
    last.cmd \in Selectors \ {"select_all"}
        => AnchorOf(edit_location) = AnchorOf(last.edit_location)

\* a select command moved the end of a Selection that runs backwards and left
\* a Selection
C33_Witness ==
    /\ last.cmd \in Selectors \ {"select_all"}
    /\ last.edit_location.kind = "Selection"
    /\ direction(last.edit_location) = "Backwards"
    /\ edit_location.kind = "Selection"
    /\ edit_location.end # last.edit_location.end
    /\ edit_location.start = last.edit_location.start

\* the ranges of positions a command hands to Editor::replace_range or
\* Editor::read_range for the edit location it starts from: one, or none
PassedRanges(cmd, t, location) ==
    IF cmd \in {"insert", "enter", "paste"} THEN {edit_range(location)}
    ELSE IF cmd \in {"cut", "copy"}
    THEN IF location.kind = "Selection" THEN {edit_range(location)} ELSE {}
    ELSE IF cmd # "backspace" THEN {}
    ELSE IF location.kind = "Selection" THEN {edit_range(location)}
    ELSE LET pos == location.position
             l == line(t, pos.y)
         IN  IF pos = beginning_of_file_position(t) THEN {}
             ELSE IF l.kind = "HeadlineStart" /\ pos.x = 0
             THEN {[start |-> EditorPosition(pos.y, beginning(l)), end |-> pos]}
             ELSE IF l.kind = "Normal" /\ pos.x = 0
             THEN {[start |-> left_position(t, left_position(t, pos)), end |-> pos]}
             ELSE {[start |-> left_position(t, pos), end |-> pos]}

\* the offsets of the range are in order and within the document
OffsetsInside(t, range) ==
    /\ 0 <= position_to_offset(t, range.start)
    /\ position_to_offset(t, range.start) <= position_to_offset(t, range.end)
    /\ position_to_offset(t, range.end) <= Len(t)

\* position_to_offset keeps the order of the valid positions of the document
\* and stays within it
OffsetsMonotone(t) ==
    \A p \in ValidPositions(t), q \in ValidPositions(t) :
        (p = q \/ Lexicographic(p, q))
            => /\ position_to_offset(t, p) <= position_to_offset(t, q)
               /\ position_to_offset(t, q) <= Len(t)

\* C34 (as claimed): position_to_offset keeps the order of the valid positions
\* of the document and stays within it, and every range a command hands to
\* the buffer has its offsets in order and within the document
C34_RangesInside ==
    /\ OffsetsMonotone(text)
    /\ \A range \in PassedRanges(last.cmd, last.text, last.edit_location) :
           OffsetsInside(last.text, range)

\* the command that ran last started from a Cursor at p and left a Cursor at
\* q, a valid position: q is before p, or both are the position at rest
StepTowards(p, q, rest, before) ==
    /\ edit_location.kind = "Cursor"
    /\ ValidLocation(text, edit_location)
    /\ last.edit_location.kind = "Cursor"
           => IF p = rest THEN q = rest
              ELSE IF before THEN Lexicographic(q, p) ELSE Lexicographic(p, q)

\* C35: from a valid edit location, move_left and move_beginning_of_word leave
\* a Cursor at a valid position that is strictly before the Cursor they
\* started from, or at the beginning of the file when they started there;
\* move_right and move_end_of_word leave one strictly after, or at the end of
\* the file when they started there.  The valid positions of a document are
\* finitely many, so repeating the command reaches that end and stays
C35_Progress ==
    ValidLocation(last.text, last.edit_location)
        => /\ last.cmd \in {"move_left", "move_beginning_of_word"}
                  => StepTowards(last.edit_location.position, edit_location.position,
                                 beginning_of_file_position(text), TRUE)
           /\ last.cmd \in {"move_right", "move_end_of_word"}
                  => StepTowards(last.edit_location.position, edit_location.position,
                                 end_of_file_position(text), FALSE)

\* move_beginning_of_word took the Cursor from the beginning of a line to the
\* line above
C35_Witness ==
    /\ last.cmd = "move_beginning_of_word"
    /\ last.edit_location.kind = "Cursor"
    /\ ValidLocation(last.text, last.edit_location)
    /\ last.edit_location.position.y > 0
    /\ edit_location.position.y = last.edit_location.position.y - 1

\* the command that ran last got Ok from Buffer::save: Editor::save on a
\* buffer with a file, the save prompt answered Save on one, or
\* Buffer::set_file on a path chosen, each with the file system answering Ok
SavedOk ==
    \/ last.cmd = "save" /\ last.file = "Some" /\ last.arg[1] = "Ok"
    \/ last.cmd = "save_prompt" /\ last.file = "Some"
           /\ last.arg[1] = "Save" /\ last.arg[2] = "Ok"
    \/ last.cmd = "set_file" /\ last.arg = <<"Md", "Ok", "Ok">>

\* the command that ran last made a buffer: Buffer::empty or Buffer::from_path
MadeBuffer == last.cmd \in {"new", "new_file", "set_buffer"}

\* the command that ran last called Buffer::replace
Replaced ==
    \/ last.cmd \in {"insert", "enter", "paste"}
    \/ last.cmd = "cut" /\ last.edit_location.kind = "Selection"
    \/ last.cmd = "backspace"
           /\ (last.edit_location.kind = "Cursor"
                   => last.edit_location.position # beginning_of_file_position(last.text))

\* C36: the buffer is pristine right after Buffer::empty, Buffer::from_path
\* and every save that succeeded, it is not after a Buffer::replace, and
\* nothing else changes whether it is: not pristine after a replace until a
\* save succeeds or the buffer is replaced by a new one
C36_Pristine ==
    /\ (MadeBuffer \/ SavedOk) => Pristine
    /\ Replaced => ~Pristine
    /\ ~(MadeBuffer \/ SavedOk \/ Replaced) => is_saved = last.is_saved

\* a save that succeeded made a changed buffer pristine again
C36_Witness ==
    /\ SavedOk
    /\ ~last.is_saved
    /\ Pristine
    /\ text # <<>>

\* the offsets of the ends of the Selection the command started from
CutFrom == position_to_offset(last.text, smallest(last.edit_location))

CutTo == position_to_offset(last.text, largest(last.edit_location))

\* C37 (as claimed): cut from a valid Selection removes the text between the
\* offsets of smallest() and largest() and nothing else, puts that text on
\* the clipboard, and leaves a Cursor at smallest() that is a valid position
\* of the document left; cut and copy from a Cursor change nothing
C37_Cut ==
    /\ (last.cmd = "cut" /\ FromSelection)
           => /\ text = Without(last.text, CutFrom, CutTo)
              /\ clipboard = slice(last.text, CutFrom, CutTo)
              /\ edit_location = CursorAt(smallest(last.edit_location))
              /\ ValidLocation(text, edit_location)
    /\ (last.cmd \in {"cut", "copy"} /\ last.edit_location.kind = "Cursor")
           => /\ text = last.text
              /\ clipboard = last.clipboard
              /\ edit_location = last.edit_location
              /\ is_saved = last.is_saved

\* C38 (as claimed): a paste that follows right after the cut of a valid
\* Selection leaves the text as it was before the cut, and a Cursor at the
\* position that was largest() of the Selection
C38_CutPaste ==
    [][(last.cmd = "cut" /\ FromSelection /\ last'.cmd = "paste")
           => /\ text' = last.text
              /\ edit_location'.kind = "Cursor"
              /\ edit_location'.position = largest(last.edit_location)]_vars

\* C39: remove_selection leaves a Cursor at the start of the Selection it
\* started from, with the column of the start as preferred x, and leaves a
\* Cursor as it is; select_all leaves the Selection from the beginning of the
\* file to its end, or a Cursor at that position when the two are one
C39_CollapseAndSelectAll ==
    /\ last.cmd = "remove_selection"
           => edit_location =
                  IF last.edit_location.kind = "Selection"
                  THEN Cursor(last.edit_location.start, last.edit_location.start.x)
                  ELSE last.edit_location
    /\ last.cmd = "select_all"
           => edit_location =
                  IF beginning_of_file_position(text) = end_of_file_position(text)
                  THEN Cursor(beginning_of_file_position(text),
                              beginning_of_file_position(text).x)
                  ELSE Selection(beginning_of_file_position(text),
                                 end_of_file_position(text))

\* remove_selection ran on a Selection that runs backwards, whose start is
\* its larger end
C39_Witness ==
    /\ last.cmd = "remove_selection"
    /\ last.edit_location.kind = "Selection"
    /\ direction(last.edit_location) = "Backwards"
    /\ edit_location = CursorAt(largest(last.edit_location))

\* C40 (as claimed): set_buffer replaces a buffer that is not pristine only
\* in a flow whose save prompt was answered Save or Don't save; after Save
\* the buffer is pristine when the open prompt is shown; and the answer
\* Cancel leaves the text, the file, the saved-state and the edit location as
\* they were, and no prompt open
C40_OpenFlow ==
    /\ (last.cmd = "set_buffer" /\ ~last.is_saved)
           => last.pending.answer \in {"Save", "DontSave"}
    /\ (pending = Flow("OpenPrompt", "Save")
            /\ last.pending.prompt \in {"SavePrompt", "SavePath"})
           => Pristine
    /\ (last.cmd = "save_prompt" /\ last.arg[1] = "Cancel")
           => /\ text = last.text
              /\ file = last.file
              /\ is_saved = last.is_saved
              /\ edit_location = last.edit_location
              /\ pending = NoFlow

====
